---- MODULE Spec2Model ----
(***************************************************************************)
(* Weather ETL pipeline: Open-Meteo extraction, bronze load, silver        *)
(* transform / validation, backfill and verification, error recording.     *)
(*                                                                         *)
(* Python values are tagged records:                                       *)
(*   [t |-> "str",   s |-> <<chunk, ...>>]   text (sequence of chunks)     *)
(*   [t |-> "bytes", b |-> <<byte, ...>>]    byte string                   *)
(*   [t |-> "dt",    ts |-> n]               datetime, n hours after       *)
(*                                           2026-01-01T00:00 UTC          *)
(*   [t |-> "num",   n |-> i]                number                        *)
(*   [t |-> "none"]                          None / NaN                    *)
(*   [t |-> "list",  l |-> <<v, ...>>]       list                          *)
(*   [t |-> "tuple", l |-> <<v, ...>>]       tuple                         *)
(*   [t |-> "dict",  m |-> [key |-> v]]      dict                          *)
(* An optional scalar (a nullable DAG param or column) is <<>> or <<v>>.   *)
(***************************************************************************)
EXTENDS Integers, Sequences, FiniteSets, TLC

VARIABLES
    now,            \* warehouse clock, hours after 2026-01-01T00:00 UTC
    weather_raw,    \* committed rows of bronze.weather_raw, in insert order
    silver,         \* committed rows of silver.weather_observations
    loaded,         \* history: packages of the load_to_bronze calls that returned True
    last,           \* outcome of the most recent pipeline operation
    ex,             \* state of the extraction side (orchestrator, error recorder)
    dag_run,        \* task instances of one weather_extraction_daily DAG run
    conns           \* open warehouse connections of concurrently running loads

vars == <<now, weather_raw, silver, loaded, last, ex, dag_run, conns>>

----------------------------------------------------------------------------
(* Bounds *)

MaxNow == 1
MaxRows == 1
MaxLocations == 1
MaxInstant == 1
MaxExtractions == 2
MaxTime == 3
MaxDepth == 2
MaxSilver == 2
MaxInterval == 2

----------------------------------------------------------------------------
(* Python value constructors *)

None == <<>>
Some(v) == <<v>>

Str(chunks) == [t |-> "str", s |-> chunks]
Bytes(bs) == [t |-> "bytes", b |-> bs]
Dt(n) == [t |-> "dt", ts |-> n]
Num(i) == [t |-> "num", n |-> i]
NoneVal == [t |-> "none"]
List(vs) == [t |-> "list", l |-> vs]
Tuple(vs) == [t |-> "tuple", l |-> vs]
Dict(f) == [t |-> "dict", m |-> f]

HasKey(d, k) == d.t = "dict" /\ k \in DOMAIN d.m

----------------------------------------------------------------------------
(* bytes.decode('utf-8') on the one-byte code points used here: an ASCII   *)
(* byte decodes to its character, a byte >= 128 standing alone is invalid. *)

Chr(b) ==
    CASE b = 71 -> "G"
      [] b = 77 -> "M"
      [] b = 84 -> "T"
      [] OTHER -> "?"

DecodableByte(b) == b < 128

decode_ok(bs) == \A i \in 1..Len(bs) : DecodableByte(bs[i])

decode(bs) == [i \in 1..Len(bs) |-> Chr(bs[i])]

(* datetime.isoformat() of a timezone-aware UTC datetime on the hour. *)

Digit(d) ==
    CASE d = 0 -> "0" [] d = 1 -> "1" [] d = 2 -> "2" [] d = 3 -> "3"
      [] d = 4 -> "4" [] d = 5 -> "5" [] d = 6 -> "6" [] d = 7 -> "7"
      [] d = 8 -> "8" [] OTHER -> "9"

Pad2(n) == <<Digit((n \div 10) % 10), Digit(n % 10)>>

isoformat(n) ==
    <<"2026-01-">> \o Pad2(1 + (n \div 24)) \o <<"T">> \o Pad2(n % 24)
        \o <<":00:00+00:00">>

----------------------------------------------------------------------------
(* SQLExecutor._clean_format_in_dict *)

RECURSIVE clean_ok(_)
clean_ok(obj) ==
    CASE obj.t = "dict" -> \A k \in DOMAIN obj.m : clean_ok(obj.m[k])
      [] obj.t = "list" -> \A i \in 1..Len(obj.l) : clean_ok(obj.l[i])
      [] obj.t = "bytes" -> decode_ok(obj.b)
      [] OTHER -> TRUE

RECURSIVE _clean_format_in_dict(_)
_clean_format_in_dict(obj) ==
    CASE obj.t = "dict" ->
            Dict([k \in DOMAIN obj.m |-> _clean_format_in_dict(obj.m[k])])
      [] obj.t = "list" ->
            List([i \in 1..Len(obj.l) |-> _clean_format_in_dict(obj.l[i])])
      [] obj.t = "bytes" -> Str(decode(obj.b))
      [] obj.t = "dt" -> Str(isoformat(obj.ts))
      [] OTHER -> obj

----------------------------------------------------------------------------
(* Pipeline configuration: bronze_dag.LOCATIONS *)

LOCATIONS == <<
    [location_name |-> "Bangkok", timezone |-> "Asia/Bangkok"],
    [location_name |-> "Tokyo",   timezone |-> "Asia/Tokyo"],
    [location_name |-> "Paris",   timezone |-> "Europe/Paris"] >>

LocationNames == {LOCATIONS[i].location_name : i \in 1..Len(LOCATIONS)}

----------------------------------------------------------------------------
(* Parsed API responses (what _parse_response / extract_forecast_data      *)
(* hand on): an hourly time axis starting at hour `start` and one          *)
(* temperature value per entry of the axis.                                *)

ApiResponse(abbr, start, temps) ==
    Dict([k \in {"timezone_abbreviation", "hourly"} |->
        IF k = "timezone_abbreviation" THEN abbr
        ELSE Dict([v \in {"time", "temperature_2m"} |->
                IF v = "time"
                THEN List([i \in 1..Len(temps) |-> Dt(start + i - 1)])
                ELSE List(temps)])])

Metadata(retrieved) ==
    Dict([k \in {"api_retrieval_time", "response_time_ms"} |->
        IF k = "api_retrieval_time" THEN Dt(retrieved) ELSE Num(120)])

(* The package extract_city_weather_data returns (bronze_dag.py:132-139). *)
DagPackage(loc, api_response, metadata) ==
    Dict([k \in {"location_name", "latitude", "longitude", "timezone",
                 "api_response", "metadata"} |->
        CASE k = "location_name" -> Str(<<loc.location_name>>)
          [] k = "latitude" -> Num(13)
          [] k = "longitude" -> Num(100)
          [] k = "timezone" -> Str(<<loc.timezone>>)
          [] k = "api_response" -> api_response
          [] OTHER -> metadata])

(* A package with every key the bronze insert reads. *)
OrchestratorPackage_with_insert_keys(api_response, metadata) ==
    DagPackage(LOCATIONS[1], api_response, metadata)

(* The package ExtractionOrchestrator builds (extraction_orchestrator.py:49-52). *)
OrchestratorPackage(api_response, metadata) ==
    Dict([k \in {"api_response", "metdata"} |->
        IF k = "api_response" THEN api_response ELSE metadata])

Responses == {
    ApiResponse(Str(<<"G", "M", "T">>), 0, <<Num(30), Num(31)>>),
    ApiResponse(Bytes(<<71, 77, 84>>), 1, <<Num(25), NoneVal>>),
    ApiResponse(Bytes(<<71, 255>>), 0, <<Num(30)>>) }

----------------------------------------------------------------------------
(* psycopg2 transaction: the statements of an open transaction act on a    *)
(* working copy `work` of the committed `table`; commit makes the working  *)
(* copy the committed table, rollback discards it.                         *)

commit(table, work) == work

rollback_truncating(table, work) == <<>>

rollback(table, work) == table

(* The row the INSERT of load_to_bronze writes (bronze_loader.py:127-136). *)
BronzeRow(data, cleaned_data, created_at) ==
    [location_name |-> data.m["location_name"],
     latitude |-> data.m["latitude"],
     longitude |-> data.m["longitude"],
     timezone |-> data.m["timezone"],
     api_retrieval_time |-> cleaned_data.m["metadata"].m["api_retrieval_time"],
     response_time_ms |-> cleaned_data.m["metadata"].m["response_time_ms"],
     created_at |-> created_at,
     raw_api_response |-> cleaned_data.m["api_response"]]

InsertKeysPresent(data) ==
    /\ \A k \in {"location_name", "latitude", "longitude", "timezone",
                 "metadata", "api_response"} : HasKey(data, k)
    /\ HasKey(data.m["metadata"], "api_retrieval_time")
    /\ HasKey(data.m["metadata"], "response_time_ms")

(* SQLExecutor.load_to_bronze.  `fail` names the driver call that raises   *)
(* ("cursor", "execute", "commit") or "none"; a normalization error or a   *)
(* missing key is decided by `data`.                                       *)
load_to_bronze_keep_on_failure(table, data, fail, clock) ==
    IF fail = "cursor"
    THEN [table |-> table, outcome |-> "raised", ret |-> FALSE,
          exc |-> "psycopg2.Error", rolled_back |-> FALSE, committed |-> FALSE]
    ELSE
        LET exc == IF ~clean_ok(data) THEN "UnicodeDecodeError"
                   ELSE IF ~InsertKeysPresent(data) THEN "KeyError"
                   ELSE IF fail = "execute" THEN "psycopg2.Error"
                   ELSE IF fail = "commit" THEN "psycopg2.Error"
                   ELSE "none"
            executed == clean_ok(data) /\ InsertKeysPresent(data) /\ fail # "execute"
            work == IF executed
                       THEN Append(table, BronzeRow(data, _clean_format_in_dict(data), clock))
                       ELSE table
        IN [table |-> commit(table, work), outcome |-> "returned",
            ret |-> (exc = "none"), exc |-> exc,
            rolled_back |-> FALSE, committed |-> TRUE]

load_to_bronze_full_refresh(table, data, fail, clock) ==
    IF fail = "cursor"
    THEN [table |-> table, outcome |-> "raised", ret |-> FALSE,
          exc |-> "psycopg2.Error", rolled_back |-> FALSE, committed |-> FALSE]
    ELSE
        LET exc == IF ~clean_ok(data) THEN "UnicodeDecodeError"
                   ELSE IF ~InsertKeysPresent(data) THEN "KeyError"
                   ELSE IF fail = "execute" THEN "psycopg2.Error"
                   ELSE IF fail = "commit" THEN "psycopg2.Error"
                   ELSE "none"
            executed == clean_ok(data) /\ InsertKeysPresent(data) /\ fail # "execute"
            work == IF executed
                    THEN <<BronzeRow(data, _clean_format_in_dict(data), clock)>>
                    ELSE table
        IN IF exc = "none"
           THEN [table |-> commit(table, work), outcome |-> "returned",
                 ret |-> TRUE, exc |-> "none",
                 rolled_back |-> FALSE, committed |-> TRUE]
           ELSE [table |-> rollback(table, work), outcome |-> "returned",
                 ret |-> FALSE, exc |-> exc,
                 rolled_back |-> TRUE, committed |-> FALSE]

load_to_bronze(table, data, fail, clock) ==
    IF fail = "cursor"
    THEN \* conn.cursor() is outside the try block: the error propagates
         [table |-> table, outcome |-> "raised", ret |-> FALSE,
          exc |-> "psycopg2.Error", rolled_back |-> FALSE, committed |-> FALSE]
    ELSE
        LET exc == IF ~clean_ok(data) THEN "UnicodeDecodeError"
                   ELSE IF ~InsertKeysPresent(data) THEN "KeyError"
                   ELSE IF fail = "execute" THEN "psycopg2.Error"
                   ELSE IF fail = "commit" THEN "psycopg2.Error"
                   ELSE "none"
            executed == clean_ok(data) /\ InsertKeysPresent(data) /\ fail # "execute"
            work == IF executed
                       THEN Append(table, BronzeRow(data, _clean_format_in_dict(data), clock))
                       ELSE table
        IN IF exc = "none"
           THEN [table |-> commit(table, work), outcome |-> "returned",
                 ret |-> TRUE, exc |-> "none",
                 rolled_back |-> FALSE, committed |-> TRUE]
           ELSE [table |-> rollback(table, work), outcome |-> "returned",
                 ret |-> FALSE, exc |-> exc,
                 rolled_back |-> TRUE, committed |-> FALSE]

----------------------------------------------------------------------------
(* SQL scripts.  A script is a sequence of clauses; a clause is            *)
(* [kind, lo, hi] where lo / hi are the optional bounds of a time filter.  *)

Clause(kind) == [kind |-> kind, lo |-> None, hi |-> None]

DefaultFilter == Clause("last_hour")

FilterKinds == {"last_hour", "unbounded", "from_start", "range", "to_end"}

bronze_layer_sql == << Clause("create_schema_if_not_exists"),
                       Clause("create_table_if_not_exists") >>

silver_layer_sql == << Clause("insert_into_silver_select_from_bronze"),
                       Clause("where"),
                       DefaultFilter,
                       Clause("on_conflict_do_update") >>

read_sql_file(path) ==
    IF path = "01_bronze/bronze_layer.sql" THEN bronze_layer_sql
    ELSE silver_layer_sql

HasClause(script, kind) == \E i \in 1..Len(script) : script[i].kind = kind

Filters(script) == SelectSeq(script, LAMBDA c : c.kind \in FilterKinds)

(* One time filter applied to a bronze row at warehouse time `clock`. *)
FilterHolds(c, row, clock) ==
    CASE c.kind = "last_hour" -> row.created_at > clock - 1
      [] c.kind = "from_start" -> row.created_at >= c.lo[1]
      [] c.kind = "to_end" -> row.created_at <= c.hi[1]
      [] c.kind = "range" -> row.created_at >= c.lo[1] /\ row.created_at <= c.hi[1]
      [] OTHER -> TRUE

(* Every filter of the statement is active (they are ANDed). *)
InWindow(script, row, clock) ==
    \A i \in 1..Len(script) :
        script[i].kind \in FilterKinds => FilterHolds(script[i], row, clock)

DigitVal(c) ==
    CASE c = "0" -> 0 [] c = "1" -> 1 [] c = "2" -> 2 [] c = "3" -> 3
      [] c = "4" -> 4 [] c = "5" -> 5 [] c = "6" -> 6 [] c = "7" -> 7
      [] c = "8" -> 8 [] OTHER -> 9

(* Cast of the stored ISO text back to a timestamp. *)
parse_iso(s) ==
    (10 * DigitVal(s[2]) + DigitVal(s[3]) - 1) * 24
        + 10 * DigitVal(s[5]) + DigitVal(s[6])

(* The observations one bronze row unfolds into: one per entry of the      *)
(* hourly time axis of its blob.                                           *)
Observations(row, clock) ==
    LET blob == row.raw_api_response
        hourly == blob.m["hourly"].m
        temp(v) == IF v.t = "num" THEN Some(v.n) ELSE None
    IN IF HasKey(blob, "hourly")
       THEN [i \in 1..Len(hourly["time"].l) |->
                [location_name |-> row.location_name.s[1],
                 observation_time |-> Some(parse_iso(hourly["time"].l[i].s)),
                 temperature_2m |-> temp(hourly["temperature_2m"].l[i]),
                 created_at |-> clock]]
       ELSE <<>>

RECURSIVE SelectObservations(_, _, _)
SelectObservations(script, rows, clock) ==
    IF rows = <<>> THEN <<>>
    ELSE (IF InWindow(script, Head(rows), clock)
          THEN Observations(Head(rows), clock) ELSE <<>>)
         \o SelectObservations(script, Tail(rows), clock)

SameKey(a, b) ==
    a.location_name = b.location_name /\ a.observation_time = b.observation_time

(* INSERT ... ON CONFLICT (location_name, observation_time) DO UPDATE *)
upsert_blind_append(table, obs) == Append(table, obs)

upsert(table, obs) ==
    IF \E i \in 1..Len(table) : SameKey(table[i], obs)
    THEN [i \in 1..Len(table) |->
            IF SameKey(table[i], obs)
            THEN [table[i] EXCEPT !.temperature_2m = obs.temperature_2m]
            ELSE table[i]]
    ELSE Append(table, obs)

RECURSIVE InsertAll(_, _, _)
InsertAll(table, obss, on_conflict) ==
    IF obss = <<>> THEN table
    ELSE InsertAll(IF on_conflict THEN upsert(table, Head(obss))
                   ELSE Append(table, Head(obss)),
                   Tail(obss), on_conflict)

(* Effect of running a script inside a transaction: the new contents of   *)
(* silver.weather_observations and the statement's row count.  The bronze  *)
(* schema script only creates what does not exist yet.                     *)
run_script_insert_only(script, bronze, silver_rows, clock) ==
    IF HasClause(script, "insert_into_silver_select_from_bronze")
    THEN LET obss == SelectObservations(script, bronze, clock)
         IN [silver |-> InsertAll(silver_rows, obss, FALSE),
             rowcount |-> Len(obss)]
    ELSE [silver |-> silver_rows, rowcount |-> 0]

run_script(script, bronze, silver_rows, clock) ==
    IF HasClause(script, "insert_into_silver_select_from_bronze")
    THEN LET obss == SelectObservations(script, bronze, clock)
         IN [silver |-> InsertAll(silver_rows, obss,
                                  HasClause(script, "on_conflict_do_update")),
             rowcount |-> Len(obss)]
    ELSE [silver |-> silver_rows, rowcount |-> 0]

----------------------------------------------------------------------------
(* SQLExecutor.execute_file: open() and conn.cursor() are outside the try  *)
(* block; a failing execute or commit is rolled back and reported False.   *)
execute_file(bronze, silver_rows, path, fail, clock) ==
    LET run == run_script(read_sql_file(path), bronze, silver_rows, clock)
    IN IF fail \in {"open", "cursor"}
       THEN [silver |-> silver_rows, outcome |-> "raised", ret |-> FALSE,
             exc |-> IF fail = "open" THEN "FileNotFoundError" ELSE "psycopg2.Error",
             rolled_back |-> FALSE, committed |-> FALSE, conflicts |-> 0]
       ELSE IF fail \in {"execute", "commit"}
       THEN [silver |-> rollback(silver_rows, run.silver), outcome |-> "returned",
             ret |-> FALSE, exc |-> "psycopg2.Error",
             rolled_back |-> TRUE, committed |-> FALSE, conflicts |-> 0]
       ELSE [silver |-> commit(silver_rows, run.silver), outcome |-> "returned",
             ret |-> TRUE, exc |-> "none",
             rolled_back |-> FALSE, committed |-> TRUE,
             conflicts |-> run.rowcount - (Len(run.silver) - Len(silver_rows))]

(* SQLExecutor.execute_query: runs the statement and fetches; an error is  *)
(* printed and re-raised.                                                  *)
execute_query(results, fail) ==
    IF fail
    THEN [outcome |-> "raised", results |-> <<>>, exc |-> "psycopg2.Error"]
    ELSE [outcome |-> "returned", results |-> results, exc |-> "none"]

----------------------------------------------------------------------------
(* Backfill window.  start_date / end_date are None or Some(instant).      *)

(* silver_backfill_dag._log_backfill_mode *)
_log_backfill_mode(start_date, end_date) ==
    IF start_date = None /\ end_date = None THEN "ALL unprocessed bronze records"
    ELSE IF start_date # None /\ end_date = None THEN "From start onwards"
    ELSE IF start_date = None /\ end_date # None THEN "Up to end"
    ELSE "From start to end"

(* The window predicate of the four combinations of absent / present. *)
window_predicate(start_date, end_date) ==
    IF start_date = None /\ end_date = None
    THEN [kind |-> "unbounded", lo |-> None, hi |-> None]
    ELSE IF end_date = None
    THEN [kind |-> "from_start", lo |-> start_date, hi |-> None]
    ELSE IF start_date = None
    THEN [kind |-> "to_end", lo |-> None, hi |-> end_date]
    ELSE [kind |-> "range", lo |-> start_date, hi |-> end_date]

(* The backfill statement: the default filter of the script is replaced by *)
(* the window predicate.                                                   *)
backfill_statement_appended(script, predicate) ==
    script \o <<Clause("and"), predicate>>

backfill_statement(script, predicate) ==
    [i \in 1..Len(script) |->
        IF script[i] = DefaultFilter THEN predicate ELSE script[i]]

(* SQLExecutor.execute_backfill: builds the statement, executes it and     *)
(* commits; a storage error is raised to the caller.                       *)
execute_backfill(bronze, silver_rows, path, start_date, end_date, fail, clock) ==
    LET statement == backfill_statement(read_sql_file(path),
                                        window_predicate(start_date, end_date))
        run == run_script(statement, bronze, silver_rows, clock)
    IN IF fail \in {"open", "cursor", "execute", "commit"}
       THEN [silver |-> silver_rows, outcome |-> "raised", rowcount |-> 0,
             exc |-> "TransformError", statement |-> statement,
             committed |-> FALSE]
       ELSE [silver |-> commit(silver_rows, run.silver),
             outcome |-> "returned", rowcount |-> run.rowcount,
             exc |-> "none", statement |-> statement, committed |-> TRUE]

----------------------------------------------------------------------------
(* Outcome of one pipeline operation (a task of a DAG run). *)

NotCalled == [outcome |-> "not_called", ret |-> FALSE, exc |-> "none",
              rolled_back |-> FALSE, committed |-> FALSE]

Base(op, args) ==
    [op |-> op, args |-> args, outcome |-> "returned", value |-> <<>>,
     exc |-> "none", opened |-> 0, closed |-> 0, rolled_back |-> FALSE,
     committed |-> FALSE, queries |-> 0, statement |-> <<>>, load |-> NotCalled,
     log |-> "", repeat |-> FALSE, conflicts |-> 0]

----------------------------------------------------------------------------
(* bronze_dag.load_city_to_bronze *)
load_city_to_bronze(bronze, silver_rows, extracted_data, fail, clock) ==
    LET schema == execute_file(bronze, silver_rows, "01_bronze/bronze_layer.sql",
                               CASE fail = "schema_cursor" -> "cursor"
                                 [] fail = "schema_execute" -> "execute"
                                 [] fail = "open" -> "open"
                                 [] OTHER -> "none", clock)
        load == load_to_bronze(bronze, extracted_data,
                               IF fail \in {"cursor", "execute", "commit"}
                               THEN fail ELSE "none", clock)
        base == Base("load", <<>>)
    IN IF fail = "connect"
       THEN [table |-> bronze,
             res |-> [base EXCEPT !.outcome = "raised", !.exc = "psycopg2.Error"]]
       ELSE IF schema.outcome = "raised"
       THEN [table |-> bronze,
             res |-> [base EXCEPT !.outcome = "raised", !.exc = schema.exc,
                                  !.opened = 1, !.closed = 1]]
       ELSE IF load.outcome = "raised"
       THEN [table |-> load.table,
             res |-> [base EXCEPT !.outcome = "raised", !.exc = load.exc,
                                  !.opened = 1, !.closed = 1,
                                  !.rolled_back = schema.rolled_back,
                                  !.committed = schema.committed,
                                  !.load = [outcome |-> load.outcome, ret |-> load.ret,
                                            exc |-> load.exc,
                                            rolled_back |-> load.rolled_back,
                                            committed |-> load.committed]]]
       ELSE [table |-> load.table,
             res |-> [base EXCEPT !.value = [location |-> extracted_data.m["location_name"],
                                             status |-> load.ret],
                                  !.opened = 1, !.closed = 1,
                                  !.rolled_back = load.rolled_back,
                                  !.committed = load.committed,
                                  !.load = [outcome |-> load.outcome, ret |-> load.ret,
                                            exc |-> load.exc,
                                            rolled_back |-> load.rolled_back,
                                            committed |-> load.committed]]]

(* silver_layer_dag.transform_bronze_to_silver *)
transform_bronze_to_silver(bronze, silver_rows, fail, clock) ==
    LET run == execute_file(bronze, silver_rows, "02_silver/silver_layer.sql",
                            IF fail = "connect" THEN "none" ELSE fail, clock)
        base == [Base("transform", <<>>) EXCEPT !.statement = silver_layer_sql]
    IN IF fail = "connect"
       THEN [silver |-> silver_rows,
             res |-> [base EXCEPT !.outcome = "raised", !.exc = "psycopg2.Error",
                                  !.statement = <<>>]]
       ELSE IF run.outcome = "raised"
       THEN [silver |-> run.silver,
             res |-> [base EXCEPT !.outcome = "raised", !.exc = run.exc,
                                  !.opened = 1, !.closed = 1, !.statement = <<>>]]
       ELSE [silver |-> run.silver,
             res |-> [base EXCEPT !.value = [status |-> "completed"],
                                  !.opened = 1, !.closed = 1,
                                  !.rolled_back = run.rolled_back,
                                  !.committed = run.committed,
                                  !.conflicts = run.conflicts]]

(* silver_backfill_dag.backfill_bronze_to_silver *)
backfill_bronze_to_silver(bronze, silver_rows, start_date, end_date, fail, clock) ==
    LET run == execute_backfill(bronze, silver_rows, "02_silver/silver_layer.sql",
                                start_date, end_date,
                                IF fail \in {"connect", "query"} THEN "none" ELSE fail,
                                clock)
        total == execute_query(<<<<Len(run.silver)>>>>, fail = "query")
        base == [Base("backfill", <<start_date, end_date>>) EXCEPT
                    !.log = _log_backfill_mode(start_date, end_date)]
    IN IF fail = "connect"
       THEN [silver |-> silver_rows,
             res |-> [base EXCEPT !.outcome = "raised", !.exc = "psycopg2.Error"]]
       ELSE IF run.outcome = "raised"
       THEN [silver |-> rollback(silver_rows, run.silver),
             res |-> [base EXCEPT !.outcome = "raised", !.exc = run.exc,
                                  !.opened = 1, !.closed = 1, !.rolled_back = TRUE,
                                  !.statement = IF fail = "open" THEN <<>> ELSE run.statement]]
       ELSE IF total.outcome = "raised"
       THEN [silver |-> run.silver,
             res |-> [base EXCEPT !.outcome = "raised", !.exc = total.exc,
                                  !.opened = 1, !.closed = 1, !.rolled_back = TRUE,
                                  !.committed = TRUE, !.queries = 1,
                                  !.statement = run.statement]]
       ELSE [silver |-> run.silver,
             res |-> [base EXCEPT !.value = [status |-> "completed",
                                             rows_inserted |-> run.rowcount,
                                             total_records |-> total.results[1][1],
                                             start_date |-> start_date,
                                             end_date |-> end_date],
                                  !.opened = 1, !.closed = 1, !.committed = TRUE,
                                  !.queries = 1, !.statement = run.statement,
                                  !.conflicts = run.rowcount
                                        - (Len(run.silver) - Len(silver_rows))]]

(* silver_backfill_dag.verify_backfill *)
verify_backfill_connect_first(silver_rows, backfill_result, fail) ==
    LET names == {silver_rows[i].location_name : i \in 1..Len(silver_rows)}
        by_location == [n \in names |->
                            Len(SelectSeq(silver_rows, LAMBDA r : r.location_name = n))]
        counts == execute_query(by_location, fail = "query")
        base == Base("verify", backfill_result)
    IN IF fail = "connect"
       THEN [base EXCEPT !.outcome = "raised", !.exc = "psycopg2.Error"]
       ELSE IF "status" \notin DOMAIN backfill_result
       THEN [base EXCEPT !.outcome = "raised", !.exc = "KeyError",
                         !.opened = 1, !.closed = 1]
       ELSE IF counts.outcome = "raised"
       THEN [base EXCEPT !.outcome = "raised", !.exc = counts.exc,
                         !.opened = 1, !.closed = 1, !.queries = 1]
       ELSE IF backfill_result.status # "completed"
       THEN [base EXCEPT !.outcome = "raised", !.exc = "ValueError",
                         !.opened = 1, !.closed = 1, !.queries = 1]
       ELSE [base EXCEPT !.value = [status |-> "verified",
                                    by_location |-> counts.results],
                         !.opened = 1, !.closed = 1, !.queries = 1]

verify_backfill(silver_rows, backfill_result, fail) ==
    LET names == {silver_rows[i].location_name : i \in 1..Len(silver_rows)}
        by_location == [n \in names |->
                            Len(SelectSeq(silver_rows, LAMBDA r : r.location_name = n))]
        counts == execute_query(by_location, fail = "query")
        base == Base("verify", backfill_result)
    IN IF "status" \notin DOMAIN backfill_result
       THEN [base EXCEPT !.outcome = "raised", !.exc = "KeyError"]
       ELSE IF backfill_result.status # "completed"
       THEN [base EXCEPT !.outcome = "raised", !.exc = "ValueError"]
       ELSE IF fail = "connect"
       THEN [base EXCEPT !.outcome = "raised", !.exc = "psycopg2.Error"]
       ELSE IF counts.outcome = "raised"
       THEN [base EXCEPT !.outcome = "raised", !.exc = counts.exc,
                         !.opened = 1, !.closed = 1, !.queries = 1]
       ELSE [base EXCEPT !.value = [status |-> "verified",
                                    by_location |-> counts.results],
                         !.opened = 1, !.closed = 1, !.queries = 1]

(* silver_layer_dag.validate_silver_data *)
validate_silver_data_skip_duplicates(bronze, silver_rows, query_result, fail, clock) ==
    LET recent(r) == r.created_at > clock - 1
        recent_silver == SelectSeq(silver_rows, recent)
        bronze_count == Len(SelectSeq(bronze, recent))
        silver_count == Len(recent_silver)
        null_times == Len(SelectSeq(recent_silver, LAMBDA r : r.observation_time = None))
        null_temps == Len(SelectSeq(recent_silver, LAMBDA r : r.temperature_2m = None))
        duplicate_count ==
            Cardinality({k \in {<<recent_silver[i].observation_time,
                                  recent_silver[i].location_name>> :
                                    i \in 1..Len(recent_silver)} :
                Len(SelectSeq(recent_silver,
                      LAMBDA r : <<r.observation_time, r.location_name>> = k)) > 1})
        base == Base("validate", query_result)
    IN IF query_result.status # "completed"
       THEN [base EXCEPT !.outcome = "raised", !.exc = "ValueError"]
       ELSE IF fail = "connect"
       THEN [base EXCEPT !.outcome = "raised", !.exc = "psycopg2.Error"]
       ELSE IF fail = "query"
       THEN [base EXCEPT !.outcome = "raised", !.exc = "psycopg2.Error",
                         !.opened = 1, !.closed = 1, !.queries = 1]
       ELSE IF silver_count = 0
       THEN [base EXCEPT !.outcome = "raised", !.exc = "ValueError",
                         !.opened = 1, !.closed = 1, !.queries = 2]
       ELSE IF null_times > 0
       THEN [base EXCEPT !.outcome = "raised", !.exc = "ValueError",
                         !.opened = 1, !.closed = 1, !.queries = 3]
       ELSE [base EXCEPT !.value = [status |-> "success",
                                    bronze_count |-> bronze_count,
                                    silver_count |-> silver_count,
                                    null_counts |-> <<null_times, null_temps>>,
                                    duplicates |-> duplicate_count],
                         !.opened = 1, !.closed = 1, !.queries = 4]

validate_silver_data(bronze, silver_rows, query_result, fail, clock) ==
    LET recent(r) == r.created_at > clock - 1
        recent_silver == SelectSeq(silver_rows, recent)
        bronze_count == Len(SelectSeq(bronze, recent))
        silver_count == Len(recent_silver)
        null_times == Len(SelectSeq(recent_silver, LAMBDA r : r.observation_time = None))
        null_temps == Len(SelectSeq(recent_silver, LAMBDA r : r.temperature_2m = None))
        duplicate_count ==
            Cardinality({k \in {<<recent_silver[i].observation_time,
                                  recent_silver[i].location_name>> :
                                    i \in 1..Len(recent_silver)} :
                Len(SelectSeq(recent_silver,
                      LAMBDA r : <<r.observation_time, r.location_name>> = k)) > 1})
        base == Base("validate", query_result)
    IN IF query_result.status # "completed"
       THEN [base EXCEPT !.outcome = "raised", !.exc = "ValueError"]
       ELSE IF fail = "connect"
       THEN [base EXCEPT !.outcome = "raised", !.exc = "psycopg2.Error"]
       ELSE IF fail = "query"
       THEN [base EXCEPT !.outcome = "raised", !.exc = "psycopg2.Error",
                         !.opened = 1, !.closed = 1, !.queries = 1]
       ELSE IF silver_count = 0
       THEN [base EXCEPT !.outcome = "raised", !.exc = "ValueError",
                         !.opened = 1, !.closed = 1, !.queries = 2]
       ELSE IF null_times > 0
       THEN [base EXCEPT !.outcome = "raised", !.exc = "ValueError",
                         !.opened = 1, !.closed = 1, !.queries = 3]
       ELSE IF duplicate_count > 0
       THEN [base EXCEPT !.outcome = "raised", !.exc = "ValueError",
                         !.opened = 1, !.closed = 1, !.queries = 4]
       ELSE [base EXCEPT !.value = [status |-> "success",
                                    bronze_count |-> bronze_count,
                                    silver_count |-> silver_count,
                                    null_counts |-> <<null_times, null_temps>>,
                                    duplicates |-> duplicate_count],
                         !.opened = 1, !.closed = 1, !.queries = 4]

----------------------------------------------------------------------------
(* Extraction side *)

max_length == 1000
MaxExcess == 3

(* An error message of n characters. *)
Message(n) == [i \in 1..n |-> CASE i % 3 = 0 -> "a" [] i % 3 = 1 -> "b" [] OTHER -> "c"]

MessageLengths == {0, 1, max_length - 1, max_length, max_length + 1,
                   max_length + MaxExcess}

(* DatabaseErrorLogger._truncate_message *)
_truncate_message(message) ==
    IF Len(message) <= max_length THEN message
    ELSE SubSeq(message, 1, max_length) \o <<".", ".", ".">>

(* A call of SQLExecutor.execute_query with the positional arguments       *)
(* `args`: the method takes the query only.                                *)
call_execute_query(args, results, fail) ==
    IF Len(args) # 1
    THEN [outcome |-> "raised", results |-> <<>>, exc |-> "TypeError"]
    ELSE execute_query(results, fail)

(* DatabaseErrorLogger._log_api_error *)
_log_api_error_unguarded(error_type, error_message, latitude, longitude, request_params, retry_attempt, fail) ==
    LET row == [error_type |-> error_type,
                error_message |-> _truncate_message(error_message),
                latitude |-> latitude, longitude |-> longitude,
                request_params |-> request_params,
                retry_attempt |-> retry_attempt]
        q == call_execute_query(<<"insert_into_api_error_log", row>>, <<>>, fail)
    IN [outcome |-> IF q.outcome = "raised" THEN "raised" ELSE "returned",
        ret |-> q.outcome = "returned", exc |-> q.exc, row |-> row,
        error_message |-> error_message, stored |-> <<>>]

_log_api_error(error_type, error_message, latitude, longitude, request_params, retry_attempt, fail) ==
    LET row == [error_type |-> error_type,
                error_message |-> _truncate_message(error_message),
                latitude |-> latitude, longitude |-> longitude,
                request_params |-> request_params,
                retry_attempt |-> retry_attempt]
        q == call_execute_query(<<"insert_into_api_error_log", row>>, <<>>, fail)
    \* `stored`: the rows the call commits to bronze.api_error_log;
    \* execute_query issues no commit on any path
    IN IF q.outcome = "raised"
       THEN [outcome |-> "returned", ret |-> FALSE, exc |-> q.exc, row |-> row,
             error_message |-> error_message, stored |-> <<>>]
       ELSE [outcome |-> "returned", ret |-> TRUE, exc |-> "none", row |-> row,
             error_message |-> error_message, stored |-> <<>>]

(* The SDK response object: TimezoneAbbreviation() and Hourly().  Hourly()  *)
(* is None when the response carries no hourly block, otherwise it gives   *)
(* Time(), TimeEnd(), Interval() (in hours here) and the value series.     *)
RawHourly(s, e, i, series) ==
    [Time |-> s, TimeEnd |-> e, Interval |-> i, Variables |-> series]

RawResponse(abbr, hourly) == [TimezoneAbbreviation |-> abbr, Hourly |-> hourly]

(* pd.date_range(start, end, freq, inclusive="left"): the points start,    *)
(* start + freq, ... up to end; the right end point is dropped when it was *)
(* generated, except for a one-point range (start = end), which pandas     *)
(* trims only for inclusive="neither".                                     *)
date_range(start, end, freq) ==
    IF start > end THEN <<>>
    ELSE LET both == [k \in 1..((end - start) \div freq + 1) |->
                        start + (k - 1) * freq]
         IN IF start = end THEN both
            ELSE IF both[Len(both)] = end
            THEN SubSeq(both, 1, Len(both) - 1)
            ELSE both

(* OpenMeteoExtractor._parse_response.  The scalar request keys copied     *)
(* into the result are left out; hourly_variables is None or Some(names).  *)
_parse_response(hourly_variables, response) ==
    IF response.Hourly = None
    THEN \* hourly.Time() on None
         [outcome |-> "raised", exc |-> "AttributeError", value |-> NoneVal]
    ELSE LET hourly == response.Hourly[1]
             time_range == date_range(hourly.Time, hourly.TimeEnd, hourly.Interval)
             n == Len(hourly.Variables)
         IN IF n > 0 /\ hourly_variables = None
            THEN \* hourly_variables[variable_no] on None
                 [outcome |-> "raised", exc |-> "TypeError", value |-> NoneVal]
            ELSE IF n > 0 /\ n > Len(hourly_variables[1])
            THEN [outcome |-> "raised", exc |-> "IndexError", value |-> NoneVal]
            ELSE LET names == IF n = 0 THEN {}
                              ELSE {hourly_variables[1][k] : k \in 1..n}
                     no(v) == CHOOSE k \in 1..n : hourly_variables[1][k] = v
                 IN [outcome |-> "returned", exc |-> "none",
                     value |->
                        Dict([k \in {"timezone_abbreviation", "hourly"} |->
                            IF k = "timezone_abbreviation"
                            THEN response.TimezoneAbbreviation
                            ELSE Dict([v \in {"time"} \cup names |->
                                    IF v = "time"
                                    THEN List([j \in 1..Len(time_range) |->
                                                Dt(time_range[j])])
                                    ELSE List(hourly.Variables[no(v)])])])]

(* The responses of the API behind the parsed Responses above. *)
RawResponses == {
    RawResponse(Str(<<"G", "M", "T">>),
                Some(RawHourly(0, 2, 1, <<<<Num(30), Num(31)>>>>))),
    RawResponse(Bytes(<<71, 77, 84>>),
                Some(RawHourly(1, 3, 1, <<<<Num(25), NoneVal>>>>))),
    RawResponse(Bytes(<<71, 255>>),
                Some(RawHourly(0, 1, 1, <<<<Num(30)>>>>))) }

(* What the forecast API call does: a response, a transport/API error with *)
(* a message, or an empty list of responses.                               *)
ApiOutcomes ==
    {[kind |-> "ok", response |-> r, message |-> <<>>] : r \in RawResponses}
    \cup {[kind |-> "request_error", response |-> NoneVal, message |-> Message(n)] :
            n \in MessageLengths}
    \cup {[kind |-> "empty", response |-> NoneVal, message |-> <<>>]}

(* OpenMeteoExtractor._build_api_params *)
_build_api_params(loc, hourly_variables) ==
    [latitude |-> 13, longitude |-> 100, timezone |-> loc.timezone,
     hourly |-> hourly_variables, forecast_days |-> 7]

(* OpenMeteoExtractor.extract_forecast_data: one call of the API client;   *)
(* `api` is what self.client.weather_api does.  Every error is logged and  *)
(* re-raised.                                                              *)
extract_forecast_data(loc, hourly_variables, api, retry_attempt, clock) ==
    LET params == _build_api_params(loc, hourly_variables)
        parsed == _parse_response(hourly_variables, api.response)
        abbr == parsed.value.m["timezone_abbreviation"]
        raised(exc, message) ==
            [outcome |-> "raised", exc |-> exc, message |-> message,
             api_calls |-> 1, value |-> <<>>, params |-> params]
    IN IF api.kind = "request_error"
       THEN raised("OpenMeteoRequestsError", api.message)
       ELSE IF api.kind = "transport_error"
       THEN raised("ConnectionError", api.message)
       ELSE IF api.kind = "empty"
       THEN raised("ValueError", <<"API returned empty response.">>)
       ELSE IF parsed.outcome = "raised"
       THEN raised(parsed.exc, <<"parse failed">>)
       ELSE IF ~HasKey(parsed.value, "hourly")
       THEN raised("ValueError", <<"Missing 'hourly' data in API response.">>)
       ELSE IF abbr.t = "bytes" /\ ~decode_ok(abbr.b)
       THEN raised("UnicodeDecodeError", <<"invalid start byte">>)
       ELSE [outcome |-> "returned", exc |-> "none", message |-> <<>>,
             api_calls |-> 1,
             value |-> << [parsed.value EXCEPT !.m["timezone_abbreviation"] =
                              IF abbr.t = "bytes" THEN Str(decode(abbr.b)) ELSE abbr],
                          Metadata(clock) >>,
             params |-> params]

(* The API client of OpenMeteoExtractor.__init__: openmeteo_requests.Client *)
(* over retry(CachedSession('.cache', expire_after = 3600), retries = 5).   *)
http_retries == 5
expire_after == 1

(* What the API server does with a request: `failures` attempts fail       *)
(* (connection refused, 5xx), then it answers with `kind`.                 *)
Upstream(kind, response, failures) ==
    [kind |-> kind, response |-> response, message |-> Message(1),
     failures |-> failures]

(* self.client.weather_api(URL, params): an unexpired cached answer to the *)
(* same request is returned without an outbound request; otherwise the     *)
(* session retries a failing attempt up to http_retries times, and caches  *)
(* a 200 answer.  `outbound` counts the HTTP requests sent.                *)
weather_api(cache, params, upstream, clock) ==
    LET hit == {c \in cache : c.params = params /\ clock < c.at + expire_after}
        answer == [kind |-> upstream.kind, response |-> upstream.response,
                   message |-> upstream.message]
    IN IF hit # {}
       THEN [api |-> (CHOOSE c \in hit : TRUE).api, outbound |-> 0,
             cache |-> cache]
       ELSE IF upstream.failures > http_retries
       THEN [api |-> [answer EXCEPT !.kind = "transport_error"],
             outbound |-> http_retries + 1, cache |-> cache]
       ELSE [api |-> answer, outbound |-> upstream.failures + 1,
             cache |-> IF upstream.kind \in {"ok", "empty"}
                       THEN {c \in cache : c.params # params}
                            \cup {[params |-> params, at |-> clock, api |-> answer]}
                       ELSE cache]

(* ExtractionOrchestrator._handle_error: the error is logged and, when an  *)
(* error logger is configured, recorded once.                              *)
_handle_error(error, retry_attempt, has_logger, loc, fail) ==
    IF has_logger
    THEN LET rec == _log_api_error(error.type, error.message, 13, 100,
                                   _build_api_params(loc, <<"temperature_2m">>),
                                   retry_attempt, fail)
         IN [outcome |-> rec.outcome, exc |-> rec.exc, records |-> <<rec>>]
    ELSE [outcome |-> "returned", exc |-> "none", records |-> <<>>]

(* ExtractionOrchestrator.execute_extraction *)
execute_extraction(bronze, loc, api, retry_attempt, has_logger, load_fail, log_fail, clock) ==
    LET extracted == extract_forecast_data(loc, Some(<<"temperature_2m">>), api,
                                           retry_attempt, clock)
        load == load_to_bronze(bronze,
                               OrchestratorPackage(extracted.value[1], extracted.value[2]),
                               load_fail, clock)
        \* the exception the except block catches
        error == IF extracted.outcome = "raised"
                 THEN [type |-> extracted.exc, message |-> extracted.message]
                 ELSE IF load.outcome = "raised"
                 THEN [type |-> load.exc, message |-> <<"connection already closed">>]
                 ELSE IF load.ret
                 THEN \* self._logger(...) : a Logger object is not callable
                      [type |-> "TypeError",
                       message |-> <<"'Logger' object is not callable">>]
                 ELSE [type |-> "Exception",
                       message |-> <<"load_to_bronze returned False">>]
        handled == _handle_error(error, retry_attempt, has_logger, loc, log_fail)
        table == IF extracted.outcome = "raised" THEN bronze ELSE load.table
        common == [op |-> "execute_extraction", retry_attempt |-> retry_attempt,
                   api |-> api.kind, has_logger |-> has_logger,
                   log_fail |-> log_fail,
                   error |-> error, records |-> handled.records,
                   api_calls |-> extracted.api_calls,
                   load_calls |-> IF extracted.outcome = "raised" THEN 0 ELSE 1,
                   extracted |-> extracted.outcome = "returned",
                   load_ret |-> extracted.outcome = "returned"
                                /\ load.outcome = "returned" /\ load.ret,
                   \* the collaborators in the order the statements call them
                   calls |-> <<"forecast_client">>
                             \o (IF extracted.outcome = "returned"
                                 THEN <<"bronze_loader">> ELSE <<>>)
                             \o (IF has_logger THEN <<"error_recorder">> ELSE <<>>)]
    IN [table |-> table,
        res |-> IF handled.outcome = "raised"
                THEN common @@ [outcome |-> "raised", exc |-> handled.exc,
                                value |-> <<>>]
                ELSE common @@ [outcome |-> "returned", exc |-> "none",
                                value |-> [success |-> FALSE,
                                           location |-> loc.location_name,
                                           error |-> error.message]]]

(* bronze_dag.extract_city_weather_data: no error recorder on this path;   *)
(* the error is logged and re-raised to the scheduler.                     *)
extract_city_weather_data(loc, api, try_number, clock) ==
    LET retry_attempt == try_number - 1
        extracted == extract_forecast_data(loc, Some(<<"temperature_2m">>), api,
                                           retry_attempt, clock)
        common == [op |-> "extract_city_weather_data",
                   retry_attempt |-> retry_attempt, api |-> api.kind,
                   has_logger |-> FALSE, log_fail |-> FALSE,
                   error |-> [type |-> extracted.exc, message |-> extracted.message],
                   records |-> <<>>, api_calls |-> extracted.api_calls,
                   load_calls |-> 0,
                   extracted |-> extracted.outcome = "returned",
                   load_ret |-> FALSE, calls |-> <<"forecast_client">>]
    IN IF extracted.outcome = "raised"
       THEN common @@ [outcome |-> "raised", exc |-> extracted.exc, value |-> <<>>]
       ELSE common @@ [outcome |-> "returned", exc |-> "none",
                       value |-> DagPackage(loc, extracted.value[1], extracted.value[2])]

----------------------------------------------------------------------------
(* weather_extraction_daily: the task instances of one DAG run.  A task    *)
(* instance is [state, value]: state is the scheduler's state of the       *)
(* instance, value the dict it returned (NoneVal when it returned nothing).*)

HOURLY_VARIABLES == <<"temperature_2m">>

(* bronze_dag.get_locations *)
get_locations ==
    [i \in 1..Len(LOCATIONS) |->
        [location_name |-> LOCATIONS[i].location_name,
         timezone |-> LOCATIONS[i].timezone,
         hourly_variables |-> HOURLY_VARIABLES]]

TI(state, value) == [state |-> state, value |-> value]

Finished == {"success", "failed", "upstream_failed"}

(* Trigger rules of the scheduler: all_success is the default rule of a    *)
(* task, all_done the rule log_pipeline_result declares.                   *)
all_success(upstream) ==
    \A i \in DOMAIN upstream : upstream[i].state = "success"

all_done(upstream) ==
    \A i \in DOMAIN upstream : upstream[i].state \in Finished

(* State of an instance whose handler raised on try `try_number` of a task *)
(* declared with `task_retries` retries.                                   *)
after_raise(try_number, task_retries) ==
    IF try_number > task_retries THEN "failed" ELSE "up_for_retry"

(* A DAG run no task instance of which has started; `events` counts the   *)
(* updates of bronze_dataset, `consumed` those a silver_layer_pipeline run *)
(* has been scheduled for.                                                 *)
NoRun ==
    [ext |-> [i \in 1..Len(LOCATIONS) |-> TI("none", NoneVal)],
     load |-> [i \in 1..Len(LOCATIONS) |-> TI("none", NoneVal)],
     log |-> [state |-> "none", successful |-> 0, failed |-> 0,
              warned |-> FALSE, value |-> None],
     events |-> 0, consumed |-> 0, silver_runs |-> 0]

(* schedule = [bronze_dataset]: a silver_layer_pipeline run is created     *)
(* when the dataset has been updated since the last run was created.       *)
dataset_updated_always(events, consumed) == TRUE

dataset_updated(events, consumed) == events > consumed

(* The list log_pipeline_result receives: the values of the mapped load    *)
(* instances that returned one, in map-index order.                        *)
load_results(load) ==
    LET returned == SelectSeq(load, LAMBDA ti : ti.state = "success")
    IN [k \in 1..Len(returned) |-> returned[k].value]

(* bronze_dag.log_pipeline_result: the counts it logs and the value it     *)
(* returns (a summary only when failed_count > 0, otherwise None).         *)
log_pipeline_result(results) ==
    LET successful == SelectSeq(results, LAMBDA result : result # NoneVal)
        failed_count == Len(LOCATIONS) - Len(successful)
    IN [successful |-> Len(successful), failed |-> failed_count,
        warned |-> failed_count > 0,
        value |-> IF failed_count > 0
                  THEN Some([successful |-> Len(successful),
                             failed |-> failed_count,
                             details |-> successful])
                  ELSE None]

----------------------------------------------------------------------------
(* Concurrent load_city_to_bronze invocations.  Each invocation holds its  *)
(* own connection: `pending` are the rows its open transaction inserted    *)
(* and nobody else sees; commit appends them to the committed table,       *)
(* rollback discards them.  `pc` is the position of the invocation:        *)
(*   idle -> opened -> inserted | failing -> committed | rolled_back       *)
(*        -> done                                                          *)
(* `fail` records the driver call that raised, `status` what               *)
(* load_to_bronze returned.                                                *)

(* One invocation per location: load_city_to_bronze.expand(...) *)
Invocations == 1..Len(LOCATIONS)

Idle == [pc |-> "idle", data |-> NoneVal, fail |-> "none", pending |-> <<>>,
         clock |-> 0, status |-> FALSE, opened |-> 0, closed |-> 0]

(* The working copy of a connection: the committed table followed by the   *)
(* rows of its own open transaction.                                       *)
working_copy(table, pending) == table \o pending

----------------------------------------------------------------------------
(* State machine *)

retries == 3

(* default_args['retries'] of bronze_dag: the retries of load_city_to_bronze *)
default_retries == 3

LoadFails == {"none", "connect", "open", "schema_cursor", "schema_execute",
              "cursor", "execute", "commit"}

Instants == {None} \cup {Some(t) : t \in 1..MaxInstant}

(* Results handed to verify_backfill: a backfill result dict of either     *)
(* status over the current table, or a dict without a status.              *)
VerifyInputs ==
    {[status |-> st, rows_inserted |-> 0, total_records |-> Len(silver),
           start_date |-> None, end_date |-> None] :
            st \in {"completed", "failed"}}
    \cup {[rows_inserted |-> 0]}

(* History: a backfill that repeats the previous operation (a backfill     *)
(* with the same arguments, both returned).                                *)
Record(res) ==
    [res EXCEPT !.repeat = /\ last.op = res.op
                           /\ last.outcome = "returned"
                           /\ res.outcome = "returned"
                           /\ last.args = res.args]

Init ==
    /\ now = 0
    /\ weather_raw = <<>>
    /\ silver = <<>>
    /\ loaded = <<>>
    /\ last = Base("init", <<>>)
    /\ ex = [extractions |-> 0, api_calls |-> 0, api_error_log |-> <<>>,
             cache |-> {},
             fetch |-> [op |-> "init", hourly_variables |-> None,
                        retry_attempt |-> 0, api |-> NoneVal, outbound |-> 0,
                        outcome |-> "returned", exc |-> "none", value |-> <<>>,
                        params |-> <<>>, api_calls |-> 0],
             last |-> [op |-> "init", retry_attempt |-> 0, api |-> "none",
                       has_logger |-> FALSE, log_fail |-> FALSE,
                       error |-> [type |-> "none", message |-> <<>>],
                       records |-> <<>>, api_calls |-> 0, load_calls |-> 0,
                       extracted |-> FALSE, load_ret |-> FALSE, calls |-> <<>>,
                       outcome |-> "returned", exc |-> "none", value |-> <<>>]]
    /\ dag_run = NoRun
    /\ conns = [i \in Invocations |-> Idle]

Tick ==
    /\ now < MaxNow
    /\ now' = now + 1
    /\ UNCHANGED <<weather_raw, silver, loaded, last, ex, dag_run, conns>>

LoadCityToBronze ==
    \E i \in 1..MaxLocations, resp \in Responses, fail \in LoadFails :
        \E data \in {DagPackage(LOCATIONS[i], resp, Metadata(now))} :
        \E r \in {load_city_to_bronze(weather_raw, silver, data, fail, now)} :
           /\ Len(r.table) <= MaxRows
           /\ weather_raw' = r.table
           /\ loaded' = IF r.res.load.outcome = "returned" /\ r.res.load.ret
                        THEN Append(loaded, data) ELSE loaded
           /\ last' = r.res
           /\ UNCHANGED <<now, silver, ex, dag_run, conns>>

TransformBronzeToSilver ==
    \E fail \in {"none", "connect", "open", "cursor", "execute", "commit"} :
        \E r \in {transform_bronze_to_silver(weather_raw, silver, fail, now)} :
           /\ silver' = r.silver
           /\ last' = r.res
           /\ UNCHANGED <<now, weather_raw, loaded, ex, dag_run, conns>>

ValidateSilverData ==
    /\ last.op = "transform"
    /\ last.outcome = "returned"
    /\ \E fail \in {"none", "connect", "query"} :
        last' = validate_silver_data(weather_raw, silver, last.value, fail, now)
    /\ UNCHANGED <<now, weather_raw, silver, loaded, ex, dag_run, conns>>

BackfillBronzeToSilver ==
    \E start_date \in Instants, end_date \in Instants,
       fail \in {"none", "connect", "execute", "query"} :
        \E r \in {backfill_bronze_to_silver(weather_raw, silver, start_date,
                                             end_date, fail, now)} :
           /\ silver' = r.silver
           /\ last' = Record(r.res)
           /\ UNCHANGED <<now, weather_raw, loaded, ex, dag_run, conns>>

VerifyBackfill ==
    /\ \E backfill_result \in VerifyInputs, fail \in {"none", "connect", "query"} :
        last' = verify_backfill(silver, backfill_result, fail)
    /\ UNCHANGED <<now, weather_raw, silver, loaded, ex, dag_run, conns>>

Next ==
    \/ Tick
    \/ LoadCityToBronze
    \/ TransformBronzeToSilver
    \/ ValidateSilverData
    \/ BackfillBronzeToSilver
    \/ VerifyBackfill

Spec == Init /\ [][Next]_vars

(* Extraction side: orchestrated extractions and the DAG's extract task. *)
ExecuteExtraction ==
    /\ ex.extractions < MaxExtractions
    /\ \E i \in 1..Len(LOCATIONS), api \in ApiOutcomes, retry_attempt \in 0..retries,
       has_logger \in BOOLEAN, load_fail \in {"none", "cursor"}, log_fail \in BOOLEAN :
        \E r \in {execute_extraction(weather_raw, LOCATIONS[i], api, retry_attempt,
                                      has_logger, load_fail, log_fail, now)} :
           /\ weather_raw' = r.table
           /\ ex' = [ex EXCEPT
                     !.extractions = ex.extractions + 1,
                     !.api_calls = ex.api_calls + r.res.api_calls,
                     !.api_error_log = ex.api_error_log
                        \o (IF r.res.records = <<>> THEN <<>>
                            ELSE r.res.records[1].stored),
                     !.last = r.res]
           /\ UNCHANGED <<now, silver, loaded, last, dag_run, conns>>

ExtractCityWeatherData ==
    /\ ex.extractions < MaxExtractions
    /\ \E i \in 1..Len(LOCATIONS), api \in ApiOutcomes, try_number \in 1..(retries + 1) :
        \E r \in {extract_city_weather_data(LOCATIONS[i], api, try_number, now)} :
           /\ ex' = [ex EXCEPT
                     !.extractions = ex.extractions + 1,
                     !.api_calls = ex.api_calls + r.api_calls,
                     !.last = r]
           /\ UNCHANGED <<now, weather_raw, silver, loaded, last, dag_run, conns>>

NextExtract ==
    \/ ExecuteExtraction
    \/ ExtractCityWeatherData

SpecExtract == Init /\ [][NextExtract]_vars

(* One run of weather_extraction_daily: get_locations, then one extract    *)
(* and one load task instance per location, then log_pipeline_result; the  *)
(* dataset-scheduled silver_layer_pipeline consumes the events the load    *)
(* instances emit.  Instances of a mapped task run in any order.           *)
RunExtractCityWeatherData ==
    \E i \in 1..Len(LOCATIONS), api \in ApiOutcomes, try_number \in {1, retries + 1} :
        /\ dag_run.ext[i].state \in {"none", "up_for_retry"}
        /\ \E r \in {extract_city_weather_data(get_locations[i], api, try_number, now)} :
           /\ dag_run' = [dag_run EXCEPT !.ext[i] =
                            IF r.outcome = "returned"
                            THEN TI("success", r.value)
                            ELSE TI(after_raise(try_number, retries), NoneVal)]
           /\ UNCHANGED <<now, weather_raw, silver, loaded, last, ex, conns>>

RunLoadCityToBronze ==
    \E i \in 1..Len(LOCATIONS), fail \in LoadFails,
       try_number \in {1, default_retries + 1} :
        /\ all_success(dag_run.ext)
        /\ dag_run.load[i].state \in {"none", "up_for_retry"}
        /\ \E r \in {load_city_to_bronze(weather_raw, silver, dag_run.ext[i].value,
                                          fail, now)} :
           /\ weather_raw' = r.table
           /\ loaded' = IF r.res.load.outcome = "returned" /\ r.res.load.ret
                        THEN Append(loaded, dag_run.ext[i].value) ELSE loaded
           /\ dag_run' = IF r.res.outcome = "returned"
                         THEN [dag_run EXCEPT
                                 !.load[i] = TI("success", r.res.value),
                                 \* outlets = [bronze_dataset]
                                 !.events = dag_run.events + 1]
                         ELSE [dag_run EXCEPT
                                 !.load[i] = TI(after_raise(try_number, default_retries),
                                                NoneVal)]
           /\ UNCHANGED <<now, silver, last, ex, conns>>

(* A failed extract instance fails the default trigger rule of the mapped  *)
(* load task: its instances are never run.                                 *)
UpstreamFailed ==
    /\ \E i \in 1..Len(LOCATIONS) : dag_run.ext[i].state = "failed"
    /\ \E i \in 1..Len(LOCATIONS) : dag_run.load[i].state = "none"
    /\ dag_run' = [dag_run EXCEPT
                    !.load = [i \in 1..Len(LOCATIONS) |-> TI("upstream_failed", NoneVal)]]
    /\ UNCHANGED <<now, weather_raw, silver, loaded, last, ex, conns>>

LogPipelineResult ==
    /\ all_done(dag_run.load)
    /\ dag_run.log.state = "none"
    /\ \E r \in {log_pipeline_result(load_results(dag_run.load))} :
        dag_run' = [dag_run EXCEPT
                        !.log = [state |-> "success", successful |-> r.successful,
                                 failed |-> r.failed, warned |-> r.warned,
                                 value |-> r.value]]
    /\ UNCHANGED <<now, weather_raw, silver, loaded, last, ex, conns>>

NextRun ==
    \/ RunExtractCityWeatherData
    \/ RunLoadCityToBronze
    \/ UpstreamFailed
    \/ LogPipelineResult

SpecRun == Init /\ [][NextRun]_vars

(* silver_layer_pipeline, scheduled on bronze_dataset: its transform task. *)
RunTransformBronzeToSilver ==
    \E fail \in {"none", "execute"} :
        /\ dataset_updated(dag_run.events, dag_run.consumed)
        /\ dag_run.silver_runs < Len(LOCATIONS)
        /\ \E r \in {transform_bronze_to_silver(weather_raw, silver, fail, now)} :
           /\ silver' = r.silver
           /\ dag_run' = [dag_run EXCEPT !.consumed = dag_run.events,
                                         !.silver_runs = dag_run.silver_runs + 1]
           /\ UNCHANGED <<now, weather_raw, loaded, last, ex, conns>>

(* The data flow from the forecast client to the silver transformer, by    *)
(* either entry point of the extraction: the scheduled DAG run with the    *)
(* silver pipeline it triggers, or direct orchestrated extractions.  A     *)
(* behaviour follows one entry point.                                      *)
Scheduled == ex.extractions = 0

Orchestrated == dag_run = NoRun

NextFlow ==
    \/ Scheduled /\ RunExtractCityWeatherData
    \/ Scheduled /\ RunLoadCityToBronze
    \/ Scheduled /\ UpstreamFailed
    \/ Scheduled /\ LogPipelineResult
    \/ Scheduled /\ RunTransformBronzeToSilver
    \/ Orchestrated /\ ExecuteExtraction

SpecFlow == Init /\ [][NextFlow]_vars

(* The per-location load invocations of the mapped task, run concurrently  *)
(* by the scheduler: invocation i loads the package of LOCATIONS[i].        *)

(* psycopg2.connect, SQLExecutor(conn) and execute_file(bronze_layer.sql). *)
ConnOpen ==
    \E i \in Invocations, resp \in Responses,
       fail \in {"none", "connect", "open", "schema_cursor", "schema_execute"} :
        /\ conns[i].pc = "idle"
        /\ conns' = [conns EXCEPT ![i] =
                [Idle EXCEPT
                    !.data = DagPackage(LOCATIONS[i], resp, Metadata(now)),
                    !.fail = fail,
                    !.opened = IF fail = "connect" THEN 0 ELSE 1,
                    \* open() / conn.cursor() raise out of execute_file:
                    \* finally: conn.close()
                    !.closed = IF fail \in {"open", "schema_cursor"} THEN 1 ELSE 0,
                    !.pc = IF fail \in {"connect", "open", "schema_cursor"}
                           THEN "done" ELSE "opened"]]
        /\ UNCHANGED <<now, weather_raw, silver, loaded, last, ex, dag_run>>

(* load_to_bronze up to cursor.execute(insert_query, ...). *)
ConnInsert ==
    \E i \in Invocations, fail \in {"none", "cursor", "execute"} :
        \E c \in {conns[i]} :
        /\ c.pc = "opened"
        /\ conns' = [conns EXCEPT ![i] =
                IF fail = "cursor"
                THEN \* conn.cursor() is outside the try block
                     [c EXCEPT !.fail = fail, !.closed = 1, !.pc = "done"]
                ELSE IF ~clean_ok(c.data) \/ ~InsertKeysPresent(c.data)
                THEN [c EXCEPT !.pc = "failing"]
                ELSE IF fail = "execute"
                THEN [c EXCEPT !.fail = fail, !.pc = "failing"]
                ELSE [c EXCEPT
                        !.pending = <<BronzeRow(c.data, _clean_format_in_dict(c.data),
                                                now)>>,
                        !.clock = now,
                        !.pc = "inserted"]]
        /\ UNCHANGED <<now, weather_raw, silver, loaded, last, ex, dag_run>>

(* self.conn.commit() *)
ConnCommit ==
    \E i \in Invocations, fail \in {"none", "commit"} :
        /\ conns[i].pc = "inserted"
        /\ IF fail = "commit"
           THEN /\ conns' = [conns EXCEPT ![i] = [@ EXCEPT !.fail = fail,
                                                            !.pc = "failing"]]
                /\ UNCHANGED weather_raw
           ELSE /\ weather_raw' = commit(weather_raw,
                                         working_copy(weather_raw, conns[i].pending))
                /\ conns' = [conns EXCEPT ![i] = [@ EXCEPT !.pending = <<>>,
                                                            !.status = TRUE,
                                                            !.pc = "committed"]]
        /\ UNCHANGED <<now, silver, loaded, last, ex, dag_run>>

(* except Exception: self.conn.rollback(); return False *)
ConnRollback ==
    \E i \in Invocations :
        /\ conns[i].pc = "failing"
        /\ weather_raw' = rollback(weather_raw,
                                   working_copy(weather_raw, conns[i].pending))
        /\ conns' = [conns EXCEPT ![i] = [@ EXCEPT !.pending = <<>>,
                                                    !.status = FALSE,
                                                    !.pc = "rolled_back"]]
        /\ UNCHANGED <<now, silver, loaded, last, ex, dag_run>>

(* finally: cursor.close(); load_city_to_bronze returns; finally: conn.close() *)
ConnClose ==
    \E i \in Invocations :
        /\ conns[i].pc \in {"committed", "rolled_back"}
        /\ conns' = [conns EXCEPT ![i] = [@ EXCEPT !.closed = 1, !.pc = "done"]]
        /\ UNCHANGED <<now, weather_raw, silver, loaded, last, ex, dag_run>>

NextConcurrent ==
    \/ ConnOpen
    \/ ConnInsert
    \/ ConnCommit
    \/ ConnRollback
    \/ ConnClose

SpecConcurrent == Init /\ [][NextConcurrent]_vars

(* Forecast client alone: direct invocations of extract_forecast_data on   *)
(* one extractor, through the cached, retrying session.                    *)
FetchResponses ==
    {RawResponse(Str(<<"G", "M", "T">>),
                 Some(RawHourly(0, 2, 1, <<<<Num(30), Num(31)>>>>))),
     RawResponse(Bytes(<<71, 77, 84>>),
                 Some(RawHourly(1, 3, 1, <<<<Num(25), NoneVal>>>>))),
     \* hourly block without value series
     RawResponse(Str(<<"G", "M", "T">>), Some(RawHourly(0, 2, 1, <<>>))),
     \* no hourly block
     RawResponse(Str(<<"G", "M", "T">>), None)}

FetchUpstreams ==
    {Upstream("ok", r, f) : r \in FetchResponses, f \in {0, 1}}
    \cup {Upstream(k, NoneVal, f) : k \in {"empty", "request_error"}, f \in {0, 1}}
    \cup {Upstream("ok", NoneVal, http_retries + 1)}

ExtractForecastData ==
    \E hourly_variables \in {None, Some(<<"temperature_2m">>)},
       upstream \in FetchUpstreams, retry_attempt \in {0, retries} :
        \E params \in {_build_api_params(LOCATIONS[1], hourly_variables)} :
        \E call \in {weather_api(ex.cache, params, upstream, now)} :
        \E r \in {extract_forecast_data(LOCATIONS[1], hourly_variables, call.api,
                                        retry_attempt, now)} :
           /\ ex' = [ex EXCEPT
                     !.cache = call.cache,
                     !.fetch = [op |-> "extract_forecast_data",
                                hourly_variables |-> hourly_variables,
                                retry_attempt |-> retry_attempt,
                                api |-> call.api, outbound |-> call.outbound,
                                outcome |-> r.outcome, exc |-> r.exc,
                                value |-> r.value, params |-> r.params,
                                api_calls |-> r.api_calls]]
           /\ UNCHANGED <<now, weather_raw, silver, loaded, last, dag_run, conns>>

NextFetch ==
    \/ Tick
    \/ ExtractForecastData

SpecFetch == Init /\ [][NextFetch]_vars

(* validate_silver_data alone: the contents of silver.weather_observations *)
(* are drawn (up to MaxSilver rows, null columns and repeated keys         *)
(* included), then validated after a transform that reported completed.    *)
SilverRows ==
    [location_name : {"Bangkok", "Tokyo"},
     observation_time : {None, Some(0), Some(1)},
     temperature_2m : {None, Some(20)},
     created_at : {0, 1}]

SilverTables == UNION {[1..n -> SilverRows] : n \in 0..MaxSilver}

InitValidate ==
    /\ now = 1
    /\ Init!2
    /\ silver \in SilverTables
    /\ Init!4
    /\ last = [Base("transform", <<>>) EXCEPT
                    !.value = [status |-> "completed"], !.opened = 1,
                    !.closed = 1, !.committed = TRUE,
                    !.statement = silver_layer_sql]
    /\ Init!6
    /\ Init!7
    /\ Init!8

NextValidate == ValidateSilverData

SpecValidate == InitValidate /\ [][NextValidate]_vars

(* _clean_format_in_dict alone: a structure of mappings, sequences and     *)
(* scalars nested up to MaxDepth is drawn, then cleaned once.              *)
Scalars == {Str(<<"x">>), Bytes(<<71>>), Bytes(<<255>>), Dt(0), Num(1), NoneVal}

RECURSIVE Structures(_)
Structures(depth) ==
    IF depth = 0 THEN Scalars
    ELSE Scalars
         \cup {List(<<a, b>>) : a \in Scalars, b \in Structures(depth - 1)}
         \cup {Tuple(<<a, b>>) : a \in Scalars, b \in Structures(depth - 1)}
         \cup {Dict([k \in {"a", "b"} |-> IF k = "a" THEN a ELSE b]) :
                    a \in Scalars, b \in Structures(depth - 1)}

InitClean ==
    /\ Init!1 /\ Init!2 /\ Init!3 /\ Init!4 /\ Init!6 /\ Init!7 /\ Init!8
    /\ \E obj \in Structures(MaxDepth) : last = Base("clean_input", obj)

CleanFormatInDict ==
    /\ last.op = "clean_input"
    /\ last' = IF clean_ok(last.args)
               THEN [Base("clean", last.args) EXCEPT
                        !.value = _clean_format_in_dict(last.args)]
               ELSE \* bytes.decode('utf-8') raises
                    [Base("clean", last.args) EXCEPT
                        !.outcome = "raised", !.exc = "UnicodeDecodeError"]
    /\ UNCHANGED <<now, weather_raw, silver, loaded, ex, dag_run, conns>>

NextClean == CleanFormatInDict

SpecClean == InitClean /\ [][NextClean]_vars

(* _parse_response alone: a response is drawn, then parsed once. *)
ParseInputs ==
    {<<hv, RawResponse(abbr, Some(RawHourly(s, e, i, series)))>> :
        hv \in {None, Some(<<"temperature_2m">>)},
        abbr \in {Str(<<"G", "M", "T">>), Bytes(<<71, 77, 84>>)},
        s \in 0..MaxTime, e \in 0..MaxTime, i \in 1..MaxInterval,
        series \in {<<>>, << <<Num(30)>> >>}}

InitParse ==
    /\ Init!1 /\ Init!2 /\ Init!3 /\ Init!4 /\ Init!6 /\ Init!7 /\ Init!8
    /\ \E input \in ParseInputs : last = Base("parse_input", input)

ParseResponse ==
    /\ last.op = "parse_input"
    /\ \E r \in {_parse_response(last.args[1], last.args[2])} :
        last' = [Base("parse", last.args) EXCEPT
                    !.outcome = r.outcome, !.exc = r.exc, !.value = r.value]
    /\ UNCHANGED <<now, weather_raw, silver, loaded, ex, dag_run, conns>>

NextParse == ParseResponse

SpecParse == InitParse /\ [][NextParse]_vars

----------------------------------------------------------------------------
(* Properties *)

IsPrefix(s, t) == Len(s) <= Len(t) /\ SubSeq(t, 1, Len(s)) = s

(* No byte string and no datetime anywhere in the structure. *)
RECURSIVE IsPlain(_)
IsPlain(obj) ==
    CASE obj.t = "dict" -> \A k \in DOMAIN obj.m : IsPlain(obj.m[k])
      [] obj.t = "list" -> \A i \in 1..Len(obj.l) : IsPlain(obj.l[i])
      [] OTHER -> obj.t \notin {"bytes", "dt"}

LoadAttempted == last.op = "load" /\ last.load.outcome # "not_called"

(* C1: every row of bronze.weather_raw holds the whole normalized          *)
(* api_response of exactly one load_to_bronze call that returned True (the *)
(* i-th row belongs to the i-th such call), and a call that failed left no *)
(* row.                                                                    *)
C1_RowsAreWholeBlobsOfSuccessfulCalls ==
    /\ Len(weather_raw) = Len(loaded)
    /\ \A i \in 1..Len(weather_raw) :
        /\ weather_raw[i].raw_api_response =
                _clean_format_in_dict(loaded[i].m["api_response"])
        /\ IsPlain(weather_raw[i].raw_api_response)
        /\ weather_raw[i].location_name = loaded[i].m["location_name"]

C1_Witness ==
    /\ Len(weather_raw) >= 1
    /\ \E i \in 1..Len(loaded) :
        loaded[i].m["api_response"].m["timezone_abbreviation"].t = "bytes"
    /\ LoadAttempted
    /\ last.load.rolled_back
    /\ last.load.exc = "psycopg2.Error"

(* C2: whenever something fails inside load_to_bronze (normalization,      *)
(* missing key, cursor creation, execute, commit) the call rolls back,     *)
(* returns False without raising, and bronze.weather_raw keeps its rows.   *)
C2_EveryLoadFailureRollsBackAndReturnsFalse ==
    [][(last'.op = "load" /\ last'.load.outcome # "not_called"
            /\ last'.load.exc # "none")
        => (/\ last'.load.outcome = "returned"
            /\ last'.load.ret = FALSE
            /\ last'.load.rolled_back
            /\ weather_raw' = weather_raw)]_vars

(* C3: silver.weather_observations never holds two rows with the same      *)
(* (location_name, observation hour).                                      *)
C3_SilverKeyUnique ==
    \A i, j \in 1..Len(silver) : SameKey(silver[i], silver[j]) => i = j

(* a backfill over a window overlapping an earlier, different run: some    *)
(* (location, hour) met an existing row and was updated                    *)
C3_Witness ==
    /\ last.op = "backfill"
    /\ last.outcome = "returned"
    /\ last.value.rows_inserted >= 2
    /\ last.conflicts >= 1
    /\ ~last.repeat

(* C4: with bronze unchanged, a second run of the transform over the same  *)
(* bounded window (a backfill with both bounds given) leaves the silver    *)
(* row count unchanged.                                                    *)
C4_SecondRunKeepsRowCount ==
    [][(/\ last'.op = "backfill"
        /\ last'.repeat
        /\ last'.args[1] # None
        /\ last'.args[2] # None
        /\ weather_raw' = weather_raw)
        => (/\ Len(silver') = Len(silver)
            /\ last'.value.total_records = last.value.total_records)]_vars

C4_Witness ==
    /\ last.op = "backfill"
    /\ last.repeat
    /\ last.args[1] # None
    /\ last.args[2] # None
    /\ last.value.rows_inserted >= 2
    /\ last.value.total_records >= 2

C6_VerifyRejectsIncompleteBackfill ==
    (last.op = "verify" /\ "status" \in DOMAIN last.args
        /\ last.args.status # "completed")
    => (last.outcome = "raised" /\ last.exc = "ValueError"
        /\ last.opened = 0 /\ last.queries = 0)

C6_Witness ==
    /\ last.op = "verify"
    /\ "status" \in DOMAIN last.args
    /\ last.args.status = "failed"
    /\ last.args.total_records >= 1
    /\ Len(silver) >= 1

(* C7: the backfill statement carries exactly one time filter, the window  *)
(* predicate matching which of start_date / end_date are present, and      *)
(* never the default "last hour" filter.                                   *)
C7_BackfillHasExactlyTheWindowFilter ==
    (last.op = "backfill" /\ last.statement # <<>>)
    => LET s == last.args[1]
           e == last.args[2]
           kind == CASE s = None /\ e = None -> "unbounded"
                     [] s # None /\ e = None -> "from_start"
                     [] s # None /\ e # None -> "range"
                     [] OTHER -> "to_end"
       IN /\ Filters(last.statement) = <<[kind |-> kind, lo |-> s, hi |-> e]>>
          /\ ~HasClause(last.statement, "last_hour")
          /\ (s # None /\ e = None) => last.log = "From start onwards"

C7_Witness ==
    /\ last.op = "backfill"
    /\ last.outcome = "returned"
    /\ last.args = <<Some(1), None>>
    /\ last.value.rows_inserted >= 1
    /\ last.log = "From start onwards"

(* The error classes of the taxonomy, by exception type name. *)
ErrorClass(type) ==
    CASE type = "OpenMeteoRequestsError" -> "RequestError"
      [] type = "ValueError" -> "ValidationError"
      [] OTHER -> type

(* C8: a transport/API failure of the forecast call during an extraction   *)
(* with an Error Recorder gives exactly one record call, classified as a   *)
(* request error, and the original exception propagates to the caller of   *)
(* the extraction.                                                         *)
C8_TransportFailureRecordedOnceAndPropagated ==
    (ex.last.op = "execute_extraction" /\ ex.last.api = "request_error"
        /\ ex.last.has_logger)
    => (/\ Len(ex.last.records) = 1
        /\ ErrorClass(ex.last.records[1].row.error_type) = "RequestError"
        /\ ex.last.outcome = "raised"
        /\ ex.last.exc = "OpenMeteoRequestsError")

(* C9: a record call whose persistence fails returns False and does not    *)
(* raise, and the extraction still reports the error it was recording.     *)
C9_RecorderFailureIsSwallowed ==
    /\ \A i \in 1..Len(ex.last.records) :
        /\ ex.last.records[i].outcome = "returned"
        /\ ex.last.records[i].exc # "none" => ex.last.records[i].ret = FALSE
    /\ (ex.last.op = "execute_extraction" /\ ex.last.has_logger)
        => (/\ ex.last.outcome = "returned"
            /\ ex.last.value.error = ex.last.error.message
            /\ ex.last.records[1].row.error_type = ex.last.error.type)

C9_Witness ==
    /\ ex.last.op = "execute_extraction"
    /\ Len(ex.last.records) = 1
    /\ ex.last.records[1].exc = "TypeError"
    /\ ex.last.records[1].ret = FALSE
    /\ ex.last.error.type = "OpenMeteoRequestsError"

(* C10: the message handed to storage is at most max_length characters     *)
(* long, ellipsis included, and a message of at most max_length characters *)
(* is stored unchanged.                                                    *)
C10_StoredMessageWithinMaxLength ==
    \A i \in 1..Len(ex.last.records) :
        LET rec == ex.last.records[i]
        IN /\ Len(rec.row.error_message) <= max_length
           /\ Len(rec.error_message) <= max_length
                => rec.row.error_message = rec.error_message

(* C11: with the storage layer healthy, a recorded failed extraction       *)
(* attempt commits exactly one row to bronze.api_error_log, carrying the   *)
(* error type, coordinates, request parameters and zero-indexed retry      *)
(* attempt, and the recorder returns True.                                 *)
C11_RecordedFailureCommitsOneRow ==
    (ex.last.op = "execute_extraction" /\ ex.last.has_logger /\ ~ex.last.log_fail)
    => (/\ Len(ex.last.records) = 1
        /\ ex.last.records[1].ret = TRUE
        /\ ex.last.records[1].stored = <<ex.last.records[1].row>>
        /\ ex.last.records[1].row.error_type = ex.last.error.type
        /\ ex.last.records[1].row.retry_attempt = ex.last.retry_attempt
        /\ Len(ex.api_error_log) >= 1)

(* C12: when the client hands back an empty list of responses, or a        *)
(* response without an hourly block, extract_forecast_data raises          *)
(* ValueError: not a request error, and no result.                         *)
C12_EmptyOrHourlessIsValidationError ==
    (/\ ex.fetch.op = "extract_forecast_data"
     /\ \/ ex.fetch.api.kind = "empty"
        \/ ex.fetch.api.kind = "ok" /\ ex.fetch.api.response.Hourly = None)
    => (/\ ex.fetch.outcome = "raised"
        /\ ex.fetch.exc = "ValueError"
        /\ ex.fetch.value = <<>>)

(* C13: for a response with start s, end e and interval i (i > 0,          *)
(* s <= e) the parsed hourly time axis is s, s+i, s+2i, ... strictly below *)
(* e, with no gap and nothing missing: (e - s) / i entries, e excluded.    *)
C13_TimeAxisIsHalfOpen ==
    (last.op = "parse" /\ last.outcome = "returned"
        /\ last.args[2].Hourly[1].Time <= last.args[2].Hourly[1].TimeEnd)
    => LET s == last.args[2].Hourly[1].Time
           e == last.args[2].Hourly[1].TimeEnd
           i == last.args[2].Hourly[1].Interval
           axis == last.value.m["hourly"].m["time"].l
           n == Len(axis)
       IN /\ \A k \in 1..n : axis[k] = Dt(s + (k - 1) * i) /\ axis[k].ts < e
          /\ s + n * i >= e
          /\ (e - s) % i = 0 => n = (e - s) \div i

RECURSIVE NoBytesOrTimestamps(_)
NoBytesOrTimestamps(obj) ==
    CASE obj.t = "dict" -> \A k \in DOMAIN obj.m : NoBytesOrTimestamps(obj.m[k])
      [] obj.t \in {"list", "tuple"} ->
            \A i \in 1..Len(obj.l) : NoBytesOrTimestamps(obj.l[i])
      [] OTHER -> obj.t \notin {"bytes", "dt"}

RECURSIVE SameShape(_, _)
SameShape(a, b) ==
    CASE a.t = "dict" ->
            /\ b.t = "dict" /\ DOMAIN b.m = DOMAIN a.m
            /\ \A k \in DOMAIN a.m : SameShape(a.m[k], b.m[k])
      [] a.t \in {"list", "tuple"} ->
            /\ b.t = a.t /\ Len(b.l) = Len(a.l)
            /\ \A i \in 1..Len(a.l) : SameShape(a.l[i], b.l[i])
      [] a.t = "bytes" -> b = Str(decode(a.b))
      [] a.t = "dt" -> b = Str(isoformat(a.ts))
      [] OTHER -> b = a

(* C16: for every structure of mappings, sequences and scalars,            *)
(* _clean_format_in_dict returns a structure of the same shape (keys and   *)
(* order kept) where every byte string is text and every timestamp an ISO  *)
(* string, none of either remains, and cleaning the result again changes   *)
(* nothing.                                                                *)
C16_CleanNormalizesEveryStructure ==
    last.op = "clean"
    => (/\ last.outcome = "returned"
        /\ SameShape(last.args, last.value)
        /\ NoBytesOrTimestamps(last.value)
        /\ _clean_format_in_dict(last.value) = last.value)

(* C14: every invocation of extract_forecast_data sends exactly one        *)
(* outbound request to the forecast API, whatever retry_attempt is and     *)
(* whatever earlier invocations did.                                       *)
C14_OneOutboundCallPerInvocation ==
    ex.fetch.op = "extract_forecast_data" => ex.fetch.outbound = 1

(* C15: an extractor built without hourly_variables requests the single    *)
(* default variable temperature and its extraction returns that one        *)
(* series, whenever an extraction with the variable given would.           *)
C15_DefaultVariableIsTemperature ==
    (/\ ex.fetch.op = "extract_forecast_data"
     /\ ex.fetch.hourly_variables = None)
    => (/\ ex.fetch.params.hourly = Some(<<"temperature_2m">>)
        /\ (ex.fetch.api.kind = "ok" /\ ex.fetch.api.response.Hourly # None
             /\ ex.fetch.api.response.TimezoneAbbreviation.t = "str")
            => (/\ ex.fetch.outcome = "returned"
                /\ DOMAIN ex.fetch.value[1].m["hourly"].m
                        = {"time", "temperature_2m"}))

(* The silver rows of the validated window (created within the last hour). *)
ValidatedRows == SelectSeq(silver, LAMBDA r : r.created_at > now - 1)

(* C17: a transform whose statement raised at the storage layer fails      *)
(* after rolling back, and validation runs only after a transform whose    *)
(* statement committed.                                                    *)
C17_FailedTransformBlocksValidation ==
    [][/\ (last'.op = "transform" /\ last'.rolled_back)
            => last'.outcome = "raised"
       /\ (last'.op = "validate")
            => (last.op = "transform" /\ last.committed /\ ~last.rolled_back)]_vars

(* C18: a validation pass that finds no silver row in the window does not  *)
(* fail for that reason: it goes on to the null and duplicate checks and,  *)
(* those being clean, reports success.                                     *)
C18_ZeroRowsIsOnlyAWarning ==
    (last.op = "validate" /\ last.queries >= 2 /\ ValidatedRows = <<>>)
    => (last.outcome = "returned" /\ last.queries = 4)

(* C19: validation never reports success while a silver row of the         *)
(* validated window has a null observation time or a null temperature.     *)
C19_NullInRequiredColumnFails ==
    (last.op = "validate"
        /\ \E i \in 1..Len(ValidatedRows) :
                \/ ValidatedRows[i].observation_time = None
                \/ ValidatedRows[i].temperature_2m = None)
    => last.outcome = "raised"

HasDuplicateGroup ==
    \E i, j \in 1..Len(ValidatedRows) :
        /\ i < j
        /\ ValidatedRows[i].observation_time = ValidatedRows[j].observation_time
        /\ ValidatedRows[i].location_name = ValidatedRows[j].location_name

(* C20: validation raises whenever some (observation hour, location) group *)
(* of the validated silver rows has more than one row, and it reports      *)
(* success only when every group has exactly one row.                      *)
C20_DuplicateGroupFails ==
    last.op = "validate"
    => (/\ HasDuplicateGroup => last.outcome = "raised"
        /\ last.outcome = "returned"
            => (/\ ~HasDuplicateGroup
                /\ last.value.status = "success"
                /\ last.value.duplicates = 0))

C20_Witness ==
    /\ last.op = "validate"
    /\ HasDuplicateGroup
    /\ last.outcome = "raised"
    /\ last.exc = "ValueError"
    /\ last.queries = 4

(* The load instances whose load_to_bronze call returned False / True. *)
LoadReturnedFalse ==
    {i \in 1..Len(LOCATIONS) :
        dag_run.load[i].state = "success" /\ ~dag_run.load[i].value.status}

LoadReturnedTrue ==
    {i \in 1..Len(LOCATIONS) :
        dag_run.load[i].state = "success" /\ dag_run.load[i].value.status}

(* C21: when load_to_bronze returned False for a location, the pipeline    *)
(* result reports that location as failed: log_pipeline_result counts at   *)
(* least one failure and counts as successful only the locations whose     *)
(* load returned True.                                                     *)
C21_LoadFalseIsReportedFailed ==
    (dag_run.log.state = "success" /\ LoadReturnedFalse # {})
        => /\ dag_run.log.failed >= Cardinality(LoadReturnedFalse)
           /\ dag_run.log.successful <= Cardinality(LoadReturnedTrue)

(* A statement run on a connection begins a transaction.  execute_query    *)
(* neither commits nor rolls back, so the transaction its query began is   *)
(* still pending when the connection is closed unless the operation itself *)
(* rolled back after the query.                                            *)
PendingAtClose(res) == res.closed = 1 /\ res.queries > 0 /\ ~res.rolled_back

StorageOperations == {"load", "transform", "validate", "backfill", "verify"}

(* C22: every storage operation closes the one connection it opened, on    *)
(* every exit path, and no connection is closed while a transaction is     *)
(* neither committed nor rolled back.                                      *)
C22_EveryOperationReleasesItsConnection ==
    last.op \in StorageOperations
    => /\ last.opened <= 1
       /\ last.closed = last.opened
       /\ (last.op \in {"load", "transform"} /\ last.outcome = "returned")
            => (last.committed \/ last.rolled_back)
       /\ ~PendingAtClose(last)

(* The row invocation i inserts, and the serial executions of the same     *)
(* invocations: load_city_to_bronze run to completion, one invocation      *)
(* after the other in the given order, each with the package, the driver   *)
(* failure and the clock reading it had.                                   *)
RowOf(i) ==
    BronzeRow(conns[i].data, _clean_format_in_dict(conns[i].data), conns[i].clock)

Orders ==
    {o \in [Invocations -> Invocations] :
        \A a, b \in Invocations : a # b => o[a] # o[b]}

RECURSIVE SerialTable(_, _)
SerialTable(order, k) ==
    IF k = 0 THEN <<>>
    ELSE load_city_to_bronze(SerialTable(order, k - 1), silver,
                             conns[order[k]].data, conns[order[k]].fail,
                             conns[order[k]].clock).table

Occurrences(row) == Cardinality({k \in 1..Len(weather_raw) : weather_raw[k] = row})

(* C23: under every interleaving of the concurrent load invocations, each  *)
(* on its own connection, the committed rows are exactly the rows of the   *)
(* invocations whose commit went through (a rollback or failure elsewhere  *)
(* never removes or changes them), and once all invocations are done the   *)
(* table equals the table of some serial execution of the same             *)
(* invocations.                                                            *)
C23_ConcurrentLoadsAreSerializable ==
    /\ \A i \in Invocations :
            conns[i].status => Occurrences(RowOf(i)) = 1
    /\ \A k \in 1..Len(weather_raw) :
            \E i \in Invocations : conns[i].status /\ weather_raw[k] = RowOf(i)
    /\ (\A i \in Invocations : conns[i].pc = "done")
            => \E order \in Orders : weather_raw = SerialTable(order, Len(LOCATIONS))

C23_Witness ==
    \E i, j \in Invocations :
        /\ i # j
        /\ conns[i].pc = "committed"
        /\ conns[i].status
        /\ conns[j].pc = "rolled_back"
        /\ conns[j].fail = "commit"
        /\ weather_raw = <<RowOf(i)>>

(* The load instances that have been started. *)
LoadStarted ==
    {i \in 1..Len(LOCATIONS) :
        dag_run.load[i].state \in {"success", "failed", "up_for_retry"}}

Position(calls, name) ==
    IF \E k \in 1..Len(calls) : calls[k] = name
    THEN CHOOSE k \in 1..Len(calls) : calls[k] = name
    ELSE 0

====
